---- MODULE Spec2Model ----
(***************************************************************************)
(* Traceability extraction-and-linking engine of IEEE_1588_2019:           *)
(*   scripts/generate-traceability-report.py  (requirements, linking,      *)
(*                                             status and coverage)        *)
(*   scripts/generators/spec_parser.py        (parse_file, de-duplication) *)
(*                                                                         *)
(* Python strings the code searches with `in` or splits with re.split are  *)
(* modelled as sequences of one-character strings, so that substring tests *)
(* and tokenisation are computed and not assumed.                          *)
(***************************************************************************)
EXTENDS Integers, Sequences, FiniteSets, TLC

VARIABLES
    \* link_tests_to_requirements (generate-traceability-report.py)
    requirements,          \* Dict[str, Requirement]
    test_to_requirements,  \* Dict[str, List[str]]
    passing_tests,         \* Set[str] of result names
    failing_tests,         \* Set[str] of result names
    linkTodo,              \* keys of test_to_requirements not yet iterated
    linkPc,
    \* Requirement.status / Requirement.coverage applied to one object
    statReq,
    statOut,
    statPc,
    \* parse_file (spec_parser.py)
    fileDoc,               \* the file: front-matter id and the lines of its text
    items,                 \* List[Dict]: the items built so far
    lineNo,                \* lines of text.splitlines() already iterated
    filePc,
    \* the de-duplication fold of main (spec_parser.py)
    all_items,
    foldPos,               \* items of all_items already iterated
    seen,
    dedup,
    duplicate_definitions,
    foldOut,               \* the JSON written to OUTPUT_FILE
    foldPc,
    \* parse_stakeholder_requirements (generate-traceability-report.py)
    req_file,              \* whether the file exists, and the lines of its content
    reqParsed,             \* the local `requirements` dict being built
    reqIdx,                \* header matches already iterated
    reqPc,
    \* parse_ctest_results (generate-traceability-report.py): the file, the two sets, records already iterated
    results_file,
    passing,
    failing,
    resPos,
    resPc,
    \* extract_test_metadata (generate-traceability-report.py): the file, the loop locals, lines already iterated; its result dict is test_to_requirements
    test_file,
    current_satisfies,
    found_any_test_decl,
    found_any_satisfies,
    extLine,
    extPc,
    \* main and generate_report (generate-traceability-report.py): the arguments, whether the requirements document and the results file exist, the functions called so far, the aggregate, the report file, the return value; requirements, test_to_requirements, passing_tests and failing_tests are its locals of the same names
    args,
    file_exists,
    calls,
    coverage_pct,
    exit_code,
    output_file,
    main_return,
    mainPc

linkVars == << requirements, test_to_requirements, passing_tests, failing_tests,
               linkTodo, linkPc >>
statVars == << statReq, statOut, statPc >>
fileVars == << fileDoc, items, lineNo, filePc >>
foldVars == << all_items, foldPos, seen, dedup, duplicate_definitions, foldOut, foldPc >>
reqVars == << req_file, reqParsed, reqIdx, reqPc >>
resVars == << results_file, passing, failing, resPos, resPc >>
extVars == << test_file, current_satisfies, found_any_test_decl, found_any_satisfies, extLine, extPc >>
mainVars == << args, file_exists, calls, coverage_pct, exit_code, output_file, main_return, mainPc >>

(***************************************************************************)
(* Each specification below runs one component; the others stay idle.      *)
(***************************************************************************)
LinkIdle ==
    /\ requirements = << >>
    /\ test_to_requirements = << >>
    /\ passing_tests = {}
    /\ failing_tests = {}
    /\ linkTodo = {}
    /\ linkPc = "idle"

StatIdle == statReq = "idle" /\ statOut = "idle" /\ statPc = "idle"

FileIdle ==
    /\ fileDoc = "idle"
    /\ items = << >>
    /\ lineNo = 0
    /\ filePc = "idle"

ReqIdle ==
    /\ req_file = "idle"
    /\ reqParsed = << >>
    /\ reqIdx = 0
    /\ reqPc = "idle"

FoldIdle ==
    /\ all_items = << >>
    /\ foldPos = 0
    /\ seen = {}
    /\ dedup = << >>
    /\ duplicate_definitions = << >>
    /\ foldOut = "idle"
    /\ foldPc = "idle"

ResIdle ==
    /\ results_file = "idle"
    /\ passing = {}
    /\ failing = {}
    /\ resPos = 0
    /\ resPc = "idle"

ExtIdle ==
    /\ test_file = "idle"
    /\ current_satisfies = << >>
    /\ found_any_test_decl = FALSE
    /\ found_any_satisfies = FALSE
    /\ extLine = 0
    /\ extPc = "idle"

MainIdle ==
    /\ args = "idle"
    /\ file_exists = "idle"
    /\ calls = << >>
    /\ coverage_pct = "idle"
    /\ exit_code = "idle"
    /\ output_file = "idle"
    /\ main_return = "idle"
    /\ mainPc = "idle"

(***************************************************************************)
(* Bounds                                                                  *)
(***************************************************************************)
\* longest list of requirement ids one test is annotated with
MaxReqList == 2
\* longest test_cases list of the Requirement handed to status/coverage
MaxTestCases == 2
\* lines of a file handed to parse_file, and identifiers on one line
MaxLines == 2
MaxLineIds == 2
\* items parse_file yields over all markdown files, and items of the test sources
MaxMdItems == 3
MaxCodeItems == 1
\* requirement sections of the requirements document
MaxSections == 2
\* records of the results file
MaxResults == 2
\* lines of a test source file
MaxSrcLines == 3

\* --threshold default (line 472)
DefaultThreshold == 75
\* the return value of main without requirements (line 495)
NoRequirementsCode == 2

(***************************************************************************)
(* Strings as character sequences                                          *)
(***************************************************************************)
\* Python `s in t` on str
IsSubstring(s, t) ==
    \E i \in 0..(Len(t) - Len(s)) : SubSeq(t, i + 1, i + Len(s)) = s

\* the separator class [_\-] of re.split(r'[_\-]+', test_name)
IsSeparator(c) == c \in {"_", "-"}

\* re.split(r'[_\-]+', s): the maximal runs of non-separator characters
\* (the empty strings re.split yields at a leading or trailing separator
\* have length 0 and are included, as Python includes them)
RECURSIVE SplitFrom(_, _, _)
SplitFrom(s, i, cur) ==
    IF i > Len(s) THEN << cur >>
    ELSE IF IsSeparator(s[i])
         THEN IF i > 1 /\ IsSeparator(s[i - 1])
              THEN SplitFrom(s, i + 1, cur)
              ELSE << cur >> \o SplitFrom(s, i + 1, << >>)
         ELSE SplitFrom(s, i + 1, Append(cur, s[i]))

re_split(s) == SplitFrom(s, 1, << >>)

\* [tok for tok in toks if len(tok) > 3]
LongTokens(toks) == SelectSeq(toks, LAMBDA tok : Len(tok) > 3)

\* max(tokens, key=len): the first element of maximal length
MaxByLen(toks) ==
    LET best == CHOOSE i \in 1..Len(toks) :
                    /\ \A j \in 1..Len(toks) : Len(toks[j]) <= Len(toks[i])
                    /\ \A j \in 1..(i - 1) : Len(toks[j]) < Len(toks[i])
    IN  toks[best]

(***************************************************************************)
(* The names of the model's inputs                                         *)
(***************************************************************************)
S_bmca_select == << "b","m","c","a","_","s","e","l","e","c","t" >>
S_sync        == << "s","y","n","c" >>
S_Suite       == << "S","u","i","t","e" >>
S_x_select_a  == << "x","_","s","e","l","e","c","t","_","a" >>
S_x_select_b  == << "x","_","s","e","l","e","c","t","_","b" >>
S_suite_sync  == << "s","u","i","t","e","_","s","y","n","c" >>

\* A test identifier f"{relative_path}::{test_name}" is kept as its path and
\* the '::'-separated segments of test_name (two for Catch2 and Google Test
\* declarations, one for plain functions and the file fallback).
TestIds ==
    { [path |-> "tests/test_bmca.cpp", segs |-> << S_bmca_select >>],
      [path |-> "tests/test_sync.cpp", segs |-> << S_Suite, S_sync >>] }

ResultNames == { S_x_select_a, S_x_select_b, S_suite_sync }

ReqIds == { "STR-STD-001", "STR-PERF-002" }

RECURSIVE SeqsUpTo(_, _)
SeqsUpTo(S, n) ==
    IF n = 0 THEN { << >> }
    ELSE LET shorter == SeqsUpTo(S, n - 1)
         IN  shorter \cup { Append(q, x) : q \in { p \in shorter : Len(p) = n - 1 }, x \in S }

(***************************************************************************)
(* class Requirement                                                       *)
(***************************************************************************)
\* Requirement.__init__
NewRequirement(req_id, title, priority, criteria) ==
    [ req_id |-> req_id, title |-> title, priority |-> priority,
      acceptance_criteria |-> criteria,
      test_cases |-> << >>, passing_tests |-> {}, failing_tests |-> {} ]

NO_TESTS == "NO TESTS"
PASSING  == "PASSING"
PARTIAL  == "PARTIAL"
FAILING  == "FAILING"

\* faulty variant: the PARTIAL test reads failing_tests instead of passing_tests
status_partial_on_failing(req) ==
    IF Len(req.test_cases) = 0 THEN NO_TESTS
    ELSE IF Cardinality(req.failing_tests) = 0 THEN PASSING
    ELSE IF Cardinality(req.failing_tests) > 0 THEN PARTIAL
    ELSE FAILING

\* Requirement.status
status(req) ==
    IF Len(req.test_cases) = 0 THEN NO_TESTS
    ELSE IF Cardinality(req.failing_tests) = 0 THEN PASSING
    ELSE IF Cardinality(req.passing_tests) > 0 THEN PARTIAL
    ELSE FAILING

\* faulty variant: the share of tests that did not fail
coverage_not_failing(req) ==
    IF Len(req.test_cases) = 0 THEN [ num |-> 0, den |-> 1 ]
    ELSE [ num |-> (Len(req.test_cases) - Cardinality(req.failing_tests)) * 100,
           den |-> Len(req.test_cases) ]

\* Requirement.coverage: the float (len(passing_tests) / len(test_cases)) * 100,
\* kept as the exact fraction num/den
coverage(req) ==
    IF Len(req.test_cases) = 0 THEN [ num |-> 0, den |-> 1 ]
    ELSE [ num |-> Cardinality(req.passing_tests) * 100,
           den |-> Len(req.test_cases) ]

\* coverage == k
CoverageIs(c, k) == c.num = k * c.den

\* Requirement.is_tested
is_tested(req) == Cardinality(req.passing_tests) > 0

(***************************************************************************)
(* link_tests_to_requirements                                              *)
(***************************************************************************)
\* test_id.split('::')[-1]
ShortName(test_id) ==
    LET parts == << test_id.path >> \o test_id.segs
    IN  parts[Len(parts)]

\* any(test_name in t for t in names)
AnyContains(test_name, names) == \E t \in names : IsSubstring(test_name, t)

\* key = max(tokens, key=len) if tokens else test_name
HeuristicKey(test_name) ==
    LET tokens == LongTokens(re_split(test_name))
    IN  IF tokens # << >> THEN MaxByLen(tokens) ELSE test_name

\* [t for t in names if key in t]
Candidates(key, names) == { t \in names : IsSubstring(key, t) }

\* faulty variant: any number of candidates on one side is accepted
Resolve_any_candidate(test_id, pass_names, fail_names) ==
    LET test_name == ShortName(test_id)
        direct_passed == AnyContains(test_name, pass_names)
        direct_failed == AnyContains(test_name, fail_names)
    IN  IF ~direct_passed /\ ~direct_failed
        THEN LET key == HeuristicKey(test_name)
                 cand_pass == Candidates(key, pass_names)
                 cand_fail == Candidates(key, fail_names)
             IN  IF Cardinality(cand_pass) >= 1 /\ cand_fail = {}
                 THEN [ passed |-> TRUE, failed |-> FALSE ]
                 ELSE IF Cardinality(cand_fail) >= 1 /\ cand_pass = {}
                 THEN [ passed |-> FALSE, failed |-> TRUE ]
                 ELSE [ passed |-> FALSE, failed |-> FALSE ]
        ELSE [ passed |-> direct_passed, failed |-> direct_failed ]

\* the (test_passed, test_failed) pair after lines 272-286
Resolve(test_id, pass_names, fail_names) ==
    LET test_name == ShortName(test_id)
        direct_passed == AnyContains(test_name, pass_names)
        direct_failed == AnyContains(test_name, fail_names)
    IN  IF ~direct_passed /\ ~direct_failed
        THEN LET key == HeuristicKey(test_name)
                 cand_pass == Candidates(key, pass_names)
                 cand_fail == Candidates(key, fail_names)
             IN  IF Cardinality(cand_pass) = 1 /\ cand_fail = {}
                 THEN [ passed |-> TRUE, failed |-> FALSE ]
                 ELSE IF Cardinality(cand_fail) = 1 /\ cand_pass = {}
                 THEN [ passed |-> FALSE, failed |-> TRUE ]
                 ELSE [ passed |-> FALSE, failed |-> FALSE ]
        ELSE [ passed |-> direct_passed, failed |-> direct_failed ]

\* faulty variant: the failing match is looked at first
LinkOne_failed_first(req, test_id, res) ==
    [ req EXCEPT
        !.test_cases = Append(@, test_id),
        !.passing_tests = IF ~res.failed /\ res.passed THEN @ \cup { test_id } ELSE @,
        !.failing_tests = IF res.failed THEN @ \cup { test_id } ELSE @ ]

\* faulty variant: a test without an outcome is not recorded at all
LinkOne_skip_unresolved(req, test_id, res) ==
    [ req EXCEPT
        !.test_cases = IF res.passed \/ res.failed THEN Append(@, test_id) ELSE @,
        !.passing_tests = IF res.passed THEN @ \cup { test_id } ELSE @,
        !.failing_tests = IF ~res.passed /\ res.failed THEN @ \cup { test_id } ELSE @ ]

\* faulty variant: `if test_failed` instead of `elif test_failed`
LinkOne_if_not_elif(req, test_id, res) ==
    [ req EXCEPT
        !.test_cases = Append(@, test_id),
        !.passing_tests = IF res.passed THEN @ \cup { test_id } ELSE @,
        !.failing_tests = IF res.failed THEN @ \cup { test_id } ELSE @ ]

\* lines 291-296: the body of `for req_id in req_ids` for one catalog hit
LinkOne(req, test_id, res) ==
    [ req EXCEPT
        !.test_cases = Append(@, test_id),
        !.passing_tests = IF res.passed THEN @ \cup { test_id } ELSE @,
        !.failing_tests = IF ~res.passed /\ res.failed THEN @ \cup { test_id } ELSE @ ]

\* faulty variant: an identifier absent from the catalog gets an entry
RECURSIVE LinkAll_creates_missing(_, _, _, _, _)
LinkAll_creates_missing(reqs, test_id, req_ids, res, i) ==
    IF i > Len(req_ids) THEN reqs
    ELSE LET req_id == req_ids[i]
             base == [ k \in DOMAIN reqs \cup { req_id } |->
                         IF k \in DOMAIN reqs THEN reqs[k]
                         ELSE NewRequirement(req_id, "title", "P1", << >>) ]
             next == [ base EXCEPT ![req_id] = LinkOne(@, test_id, res) ]
         IN  LinkAll_creates_missing(next, test_id, req_ids, res, i + 1)

\* lines 288-296: `for req_id in req_ids`, from position i of the list
RECURSIVE LinkAll(_, _, _, _, _)
LinkAll(reqs, test_id, req_ids, res, i) ==
    IF i > Len(req_ids) THEN reqs
    ELSE LET req_id == req_ids[i]
             next == IF req_id \in DOMAIN reqs
                     THEN [ reqs EXCEPT ![req_id] = LinkOne(@, test_id, res) ]
                     ELSE reqs
         IN  LinkAll(next, test_id, req_ids, res, i + 1)

\* the catalogs, annotation maps and result sets linking is run on
Catalogs ==
    { [ id \in S |-> NewRequirement(id, "title", "P1", << >>) ] :
        S \in (SUBSET ReqIds) \ { {} } }

ReqLists == SeqsUpTo(ReqIds, MaxReqList) \ { << >> }

AnnotationMaps ==
    UNION { [ T -> ReqLists ] : T \in SUBSET TestIds }

InitLink ==
    /\ requirements \in Catalogs
    /\ test_to_requirements \in AnnotationMaps
    /\ passing_tests \in SUBSET ResultNames
    /\ failing_tests \in SUBSET ResultNames
    /\ linkTodo = DOMAIN test_to_requirements
    /\ linkPc = "linking"
    /\ StatIdle /\ FileIdle /\ FoldIdle /\ ReqIdle /\ ResIdle /\ ExtIdle /\ MainIdle

\* one iteration of `for test_id, req_ids in test_to_requirements.items()`
LinkTest ==
    /\ linkPc = "linking"
    /\ \E test_id \in linkTodo :
        LET req_ids == test_to_requirements[test_id]
            res == Resolve(test_id, passing_tests, failing_tests)
        IN  /\ requirements' = LinkAll(requirements, test_id, req_ids, res, 1)
            /\ linkTodo' = linkTodo \ { test_id }
    /\ UNCHANGED << test_to_requirements, passing_tests, failing_tests, linkPc, statVars, fileVars, foldVars, reqVars, resVars, extVars, mainVars >>

\* the loop is exhausted and the function returns
LinkReturn ==
    /\ linkPc = "linking"
    /\ linkTodo = {}
    /\ linkPc' = "done"
    /\ UNCHANGED << requirements, test_to_requirements, passing_tests, failing_tests,
                    linkTodo, statVars, fileVars, foldVars, reqVars, resVars, extVars, mainVars >>

NextLink == LinkTest \/ LinkReturn

(***************************************************************************)
(* Requirement.status and Requirement.coverage on an arbitrary object      *)
(***************************************************************************)
\* every combination of the three collections, not only those linking builds
InitStatus ==
    /\ statReq \in
          { [ NewRequirement("STR-STD-001", "title", "P1", << >>) EXCEPT
                !.test_cases = tc, !.passing_tests = p, !.failing_tests = f ] :
              tc \in SeqsUpTo(TestIds, MaxTestCases),
              p \in SUBSET TestIds, f \in SUBSET TestIds }
    /\ statOut = "idle"
    /\ statPc = "ready"
    /\ LinkIdle /\ FileIdle /\ FoldIdle /\ ReqIdle /\ ResIdle /\ ExtIdle /\ MainIdle

\* reading the two properties of the object
ReadStatus ==
    /\ statPc = "ready"
    /\ statOut' = [ status |-> status(statReq), coverage |-> coverage(statReq) ]
    /\ statPc' = "read"
    /\ UNCHANGED << statReq, linkVars, fileVars, foldVars, reqVars, resVars, extVars, mainVars >>

NextStatus == ReadStatus

(***************************************************************************)
(* spec_parser.py: parse_file                                              *)
(***************************************************************************)
\* identifiers REF_PATTERN finds; TEST-* ones are also what main's
\* test_id_pattern finds in the test sources
SpecIds == { "REQ-F-001", "TEST-LOGIN-001" }
TestSpecIds == { "TEST-LOGIN-001" }

\* fm.get('id') of a file without front matter or without an id field
NoId == "(none)"

\* A line of text.splitlines() is kept as what the three patterns see of it:
\*   lead "heading": the line starts as \s{0,3}#{1,6}\s+ and an identifier follows
\*   lead "bare"   : stripped.strip('# ').strip() starts with an identifier, but
\*                   the line does not start as a heading (no '#', seven '#', ...)
\*   lead "text"   : anything else comes first
\* and ids, the identifiers REF_PATTERN.findall(line_core) returns, in order.
FileLines ==
    { [ lead |-> l, ids |-> q ] :
        l \in { "heading", "bare" }, q \in SeqsUpTo(SpecIds, MaxLineIds) \ { << >> } }
    \cup { [ lead |-> "text", ids |-> q ] : q \in SeqsUpTo(SpecIds, MaxLineIds) }

FileDocs ==
    { [ primary_id |-> p, lines |-> ls ] :
        p \in SpecIds \cup { NoId }, ls \in SeqsUpTo(FileLines, MaxLines) }

\* HEADING_DEF_PATTERN.match(stripped): the matched id, or NoId for None
heading_match(line) == IF line.lead = "heading" THEN line.ids[1] ELSE NoId

\* ID_PATTERN.match(line_core) is not None
id_pattern_match(line) == line.lead \in { "heading", "bare" }

\* build_item: the id, the sourceType and where the title came from (the
\* references and the hash depend on the whole text alone and are left out)
build_item(id_, title, source_type) ==
    [ id |-> id_, title |-> title, sourceType |-> source_type ]

\* faulty variant: build_item called without source_type, which defaults
\* to 'reference'
PrimaryItems_default_source_type(primary_id) ==
    IF primary_id # NoId
    THEN << build_item(primary_id, "fm.title or path.stem", "reference") >>
    ELSE << >>

\* lines 107-110: items after the front matter is read
PrimaryItems(primary_id) ==
    IF primary_id # NoId
    THEN << build_item(primary_id, "fm.title or path.stem", "definition") >>
    ELSE << >>

\* faulty variant: the behaviour before the definition/reference
\* classification, where the identifier a line begins with defines it
RECURSIVE ParseIds_first_id_defines(_, _, _, _)
ParseIds_first_id_defines(its, primary_id, line, k) ==
    IF k > Len(line.ids) THEN its
    ELSE LET id_ == line.ids[k]
             title == IF k = 1 THEN "remainder or path.stem" ELSE "path.stem"
             item == build_item(id_, title,
                                IF k = 1 THEN "definition" ELSE "reference")
         IN  IF primary_id # NoId /\ id_ = primary_id
             THEN ParseIds_first_id_defines(its, primary_id, line, k + 1)
             ELSE IF \E i \in 1..Len(its) : its[i].id = id_
             THEN ParseIds_first_id_defines(its, primary_id, line, k + 1)
             ELSE ParseIds_first_id_defines(Append(its, item), primary_id, line, k + 1)

\* lines 120-132: `for idx, id_ in enumerate(ids_in_line)` from position k
\* (k = idx + 1)
RECURSIVE ParseIds(_, _, _, _)
ParseIds(its, primary_id, line, k) ==
    IF k > Len(line.ids) THEN its
    ELSE LET id_ == line.ids[k]
             is_definition == heading_match(line) # NoId
                                /\ heading_match(line) = id_ /\ k = 1
             title == IF k = 1 THEN "remainder or path.stem" ELSE "path.stem"
             item == build_item(id_, title,
                                IF is_definition THEN "definition" ELSE "reference")
         IN  IF primary_id # NoId /\ id_ = primary_id
             THEN ParseIds(its, primary_id, line, k + 1)
             ELSE IF \E i \in 1..Len(its) : its[i].id = id_
             THEN ParseIds(its, primary_id, line, k + 1)
             ELSE ParseIds(Append(its, item), primary_id, line, k + 1)

\* lines 111-132: the body of `for raw_line in text.splitlines()`
ParseLineItems(its, primary_id, line) ==
    IF ~id_pattern_match(line) THEN its
    ELSE ParseIds(its, primary_id, line, 1)

\* parse_file entered: the text is read
InitFile ==
    /\ fileDoc \in FileDocs
    /\ items = << >>
    /\ lineNo = 0
    /\ filePc = "front_matter"
    /\ LinkIdle /\ StatIdle /\ FoldIdle /\ ReqIdle /\ ResIdle /\ ExtIdle /\ MainIdle

\* lines 106-110
ReadFrontMatter ==
    /\ filePc = "front_matter"
    /\ items' = PrimaryItems(fileDoc.primary_id)
    /\ filePc' = "lines"
    /\ UNCHANGED << fileDoc, lineNo, linkVars, statVars, foldVars, reqVars, resVars, extVars, mainVars >>

\* one iteration of `for raw_line in text.splitlines()`
ParseLine ==
    /\ filePc = "lines"
    /\ lineNo < Len(fileDoc.lines)
    /\ items' = ParseLineItems(items, fileDoc.primary_id, fileDoc.lines[lineNo + 1])
    /\ lineNo' = lineNo + 1
    /\ UNCHANGED << fileDoc, filePc, linkVars, statVars, foldVars, reqVars, resVars, extVars, mainVars >>

\* line 133: return items
ParseReturn ==
    /\ filePc = "lines"
    /\ lineNo = Len(fileDoc.lines)
    /\ filePc' = "done"
    /\ UNCHANGED << fileDoc, items, lineNo, linkVars, statVars, foldVars, reqVars, resVars, extVars, mainVars >>

NextFile == ReadFrontMatter \/ ParseLine \/ ParseReturn

(***************************************************************************)
(* spec_parser.py: main, the de-duplication fold over all_items             *)
(***************************************************************************)
\* An item of all_items: its id, item.get('sourceType') ("none" for the items
\* of lines 183-189, which carry no sourceType) and its path.  Every sequence
\* of definitions and references is what parse_file yields over some files
\* (one item a file, path i for the i-th), and the items of the test sources
\* follow those of the markdown files (lines 152-189).
MdItemLists ==
    { [ i \in 1..Len(q) |-> [ id |-> q[i][1], sourceType |-> q[i][2], path |-> i ] ] :
        q \in SeqsUpTo(SpecIds \X { "definition", "reference" }, MaxMdItems) }

CodeItemLists == SeqsUpTo(TestSpecIds, MaxCodeItems)

AllItemLists ==
    { md \o [ i \in 1..Len(code) |->
                [ id |-> code[i], sourceType |-> "none", path |-> Len(md) + i ] ] :
        md \in MdItemLists, code \in CodeItemLists }

\* line 202: duplicate_definitions.get(iid, 1) + 1
BumpCount(dd, iid) ==
    LET old == IF iid \in DOMAIN dd THEN dd[iid] ELSE 1
    IN  [ k \in DOMAIN dd \cup { iid } |-> IF k = iid THEN old + 1 ELSE dd[k] ]

\* the behaviour before the definition/reference classification: any repeat
\* of an id is counted
FoldItem_any_repeat(st, item) ==
    IF item.id \notin st.seen
    THEN [ st EXCEPT !.seen = @ \cup { item.id }, !.dedup = Append(@, item) ]
    ELSE [ st EXCEPT !.duplicate_definitions = BumpCount(@, item.id) ]

\* lines 195-204: the body of `for item in all_items` on the fold's state
FoldItem(st, item) ==
    IF item.id \notin st.seen
    THEN [ st EXCEPT !.seen = @ \cup { item.id }, !.dedup = Append(@, item) ]
    ELSE IF item.sourceType = "definition"
         THEN [ st EXCEPT !.duplicate_definitions = BumpCount(@, item.id) ]
         ELSE st

\* lines 190-193, with all_items as collected by lines 151-189
InitFold ==
    /\ all_items \in AllItemLists
    /\ foldPos = 0
    /\ seen = {}
    /\ dedup = << >>
    /\ duplicate_definitions = << >>
    /\ foldOut = "idle"
    /\ foldPc = "fold"
    /\ LinkIdle /\ StatIdle /\ FileIdle /\ ReqIdle /\ ResIdle /\ ExtIdle /\ MainIdle

\* one iteration of `for item in all_items`
FoldStep ==
    /\ foldPc = "fold"
    /\ foldPos < Len(all_items)
    /\ LET st == FoldItem([ seen |-> seen, dedup |-> dedup,
                            duplicate_definitions |-> duplicate_definitions ],
                          all_items[foldPos + 1])
       IN  /\ seen' = st.seen
           /\ dedup' = st.dedup
           /\ duplicate_definitions' = st.duplicate_definitions
    /\ foldPos' = foldPos + 1
    /\ UNCHANGED << all_items, foldOut, foldPc, linkVars, statVars, fileVars, reqVars, resVars, extVars, mainVars >>

\* lines 205-218: the warnings and the JSON (duplicateDefinitionIds is the
\* key list of duplicate_definitions; the counts go to stderr)
WriteOutput ==
    /\ foldPc = "fold"
    /\ foldPos = Len(all_items)
    /\ foldOut' = [ items |-> dedup,
                    duplicateDefinitionIds |-> DOMAIN duplicate_definitions,
                    extraDefinitions |-> duplicate_definitions ]
    /\ foldPc' = "done"
    /\ UNCHANGED << all_items, foldPos, seen, dedup, duplicate_definitions,
                    linkVars, statVars, fileVars, reqVars, resVars, extVars, mainVars >>

NextFold == FoldStep \/ WriteOutput

(***************************************************************************)
(* generate-traceability-report.py: parse_stakeholder_requirements         *)
(***************************************************************************)
\* The content is kept as its lines, each as what the patterns see of it:
\*   header   : matches header_re; id is group(1), title group(2)
\*   priority : matches the **Priority** bullet pattern; p is group(1)
\*   shall    : a '- ' or '* ' bullet containing SHALL or MUST; item is s[2:].strip()
\*   ac       : contains 'Acceptance Criteria'
\*   fence    : starts with three backquotes
\*   text     : any other non-empty line
\* raw is line.strip().
HeaderLine(id, title) == [ kind |-> "header", id |-> id, title |-> title, raw |-> title ]
PriorityLine(p) == [ kind |-> "priority", p |-> p, raw |-> p ]
ShallLine(item) == [ kind |-> "shall", item |-> item, raw |-> "- " \o item ]
AcLine == [ kind |-> "ac", raw |-> "**Acceptance Criteria**:" ]
FenceLine == [ kind |-> "fence", raw |-> "(code fence)" ]
TextLine(t) == [ kind |-> "text", raw |-> t ]

ReqHeaders ==
    { HeaderLine("STR-STD-001", "Message Format"),
      HeaderLine("STR-STD-001", "Timing Accuracy"),
      HeaderLine("STR-PERF-002", "Timing Accuracy") }

ReqBodies ==
    { << >>,
      << PriorityLine("P0") >>,
      << ShallLine("System SHALL sync"), PriorityLine("P2"), PriorityLine("P0") >>,
      << AcLine, FenceLine, TextLine("Given a clock"), FenceLine >> }

ReqSectionTexts == { << h >> \o b : h \in ReqHeaders, b \in ReqBodies }

RECURSIVE Flatten(_)
Flatten(qs) == IF qs = << >> THEN << >> ELSE Head(qs) \o Flatten(Tail(qs))

ReqContents == { Flatten(qs) : qs \in SeqsUpTo(ReqSectionTexts, MaxSections) }

\* list(header_re.finditer(content)): the line numbers of the header lines
RECURSIVE MatchesFrom(_, _)
MatchesFrom(content, n) ==
    IF n > Len(content) THEN << >>
    ELSE IF content[n].kind = "header"
         THEN << n >> \o MatchesFrom(content, n + 1)
         ELSE MatchesFrom(content, n + 1)

matches(content) == MatchesFrom(content, 1)

\* lines 85-87: content[start:end] for match i
Section(content, i) ==
    LET ms == matches(content)
        end == IF i + 1 <= Len(ms) THEN ms[i + 1] - 1 ELSE Len(content)
    IN  SubSeq(content, ms[i] + 1, end)

FirstWhere(section, from, kind) ==
    LET S == { n \in from..Len(section) : section[n].kind = kind }
    IN  IF S = {} THEN 0 ELSE CHOOSE n \in S : \A m \in S : n <= m

\* lines 90-91
Priority(section) ==
    LET n == FirstWhere(section, 1, "priority")
    IN  IF n # 0 THEN section[n].p ELSE "P1"

\* lines 96-99
BulletCriteria(section) ==
    LET bullets == SelectSeq(section, LAMBDA l : l.kind = "shall")
    IN  [ n \in 1..Len(bullets) |-> bullets[n].item ]

\* lines 101-106: the block between the first fence after 'Acceptance
\* Criteria' and the first fence at least two lines further on
GherkinCriteria(section) ==
    LET a == FirstWhere(section, 1, "ac")
        f == IF a = 0 THEN 0 ELSE FirstWhere(section, a + 1, "fence")
        c == IF f = 0 THEN 0 ELSE FirstWhere(section, f + 2, "fence")
    IN  IF c = 0 THEN << >>
        ELSE LET block == SubSeq(section, f + 1, c - 1)
             IN  [ n \in 1..Len(block) |-> block[n].raw ]

\* lines 83-109: the Requirement built for match i
RequirementOf(content, i) ==
    LET m == content[matches(content)[i]]
        section == Section(content, i)
    IN  NewRequirement(m.id, m.title, Priority(section),
                       BulletCriteria(section) \o GherkinCriteria(section))

\* line 109: requirements[req_id] = Requirement(...)
Store(reqs, r) ==
    [ k \in DOMAIN reqs \cup { r.req_id } |-> IF k = r.req_id THEN r ELSE reqs[k] ]

InitReq ==
    /\ req_file \in { [ exists |-> FALSE, content |-> << >> ] }
                      \cup { [ exists |-> TRUE, content |-> c ] : c \in ReqContents }
    /\ reqParsed = << >>
    /\ reqIdx = 0
    /\ reqPc = "open"
    /\ LinkIdle /\ StatIdle /\ FileIdle /\ FoldIdle /\ ResIdle /\ ExtIdle /\ MainIdle

\* lines 71-73: the file is missing
ReqMissing ==
    /\ reqPc = "open"
    /\ ~req_file.exists
    /\ reqPc' = "done"
    /\ UNCHANGED << req_file, reqParsed, reqIdx, linkVars, statVars, fileVars, foldVars, resVars, extVars, mainVars >>

\* lines 75-81: the file is read and the headers are matched
ReqRead ==
    /\ reqPc = "open"
    /\ req_file.exists
    /\ reqPc' = "sections"
    /\ UNCHANGED << req_file, reqParsed, reqIdx, linkVars, statVars, fileVars, foldVars, resVars, extVars, mainVars >>

\* one iteration of `for i, m in enumerate(matches)`
ReqSection ==
    /\ reqPc = "sections"
    /\ reqIdx < Len(matches(req_file.content))
    /\ reqParsed' = Store(reqParsed, RequirementOf(req_file.content, reqIdx + 1))
    /\ reqIdx' = reqIdx + 1
    /\ UNCHANGED << req_file, reqPc, linkVars, statVars, fileVars, foldVars, resVars, extVars, mainVars >>

\* lines 111-112
ReqReturn ==
    /\ reqPc = "sections"
    /\ reqIdx = Len(matches(req_file.content))
    /\ reqPc' = "done"
    /\ UNCHANGED << req_file, reqParsed, reqIdx, linkVars, statVars, fileVars, foldVars, resVars, extVars, mainVars >>

NextReq == ReqMissing \/ ReqRead \/ ReqSection \/ ReqReturn

(***************************************************************************)
(* generate-traceability-report.py: parse_ctest_results                    *)
(***************************************************************************)
LogNames == { S_x_select_a, S_suite_sync }

\* a <Status> child, or a terminal line, that is not found
Missing == "(missing)"
\* a <Name> child that test.find('Name') does not find (names are sequences of
\* characters, and no name in LogNames is empty)
NoName == << >>

\* The results file is kept as what the parsers see of it.
\*   format "xml" : ET.parse succeeds; records are the .//Test elements, each
\*                  with the text of its Name and Status children (NoName
\*                  and Missing for a child that is absent)
\*   format "text": ET.parse raises ParseError; records are, in file order,
\*       kind "legacy": a line legacy_pattern matches, with group(1), group(2)
\*       kind "block" : a header line 'i/n Testing: name' with the terminal
\*                      line met before the next header: "Passed", "Failed",
\*                      or Missing when the block has none
XmlTests ==
    { [ name |-> n, status |-> st ] :
        n \in LogNames \cup { NoName }, st \in { "passed", "failed", Missing } }

TextRecords ==
    { [ kind |-> "legacy", name |-> n, status |-> st ] :
        n \in LogNames, st \in { "Passed", "Failed", "***Failed" } }
    \cup { [ kind |-> "block", name |-> n, status |-> st ] :
             n \in LogNames, st \in { "Passed", "Failed", Missing } }

ResultsFiles ==
    { [ exists |-> FALSE, format |-> "text", records |-> << >> ] }
    \cup { [ exists |-> TRUE, format |-> "xml", records |-> q ] :
             q \in SeqsUpTo(XmlTests, MaxResults) }
    \cup { [ exists |-> TRUE, format |-> "text", records |-> q ] :
             q \in SeqsUpTo(TextRecords, MaxResults) }

\* the pair of sets as one value
Sets(p, f) == [ passing |-> p, failing |-> f ]

\* lines 207-217: the body of `for test in root.findall('.//Test')`
XmlRecord(sets, test) ==
    IF test.name # NoName /\ test.status # Missing
    THEN IF test.status = "passed"
         THEN Sets(sets.passing \cup { test.name }, sets.failing)
         ELSE Sets(sets.passing, sets.failing \cup { test.name })
    ELSE sets

\* lines 235-241 and 247-253: the body of either finditer loop for one match
TextRecord(sets, rec) ==
    IF rec.status = "Passed"
    THEN Sets(sets.passing \cup { rec.name }, sets.failing)
    ELSE Sets(sets.passing, sets.failing \cup { rec.name })

\* legacy_pattern.finditer(content)
LegacyMatches(records) == SelectSeq(records, LAMBDA r : r.kind = "legacy")

\* block_pattern.finditer(content): the headers with a terminal line
BlockMatches(records) ==
    SelectSeq(records, LAMBDA r : r.kind = "block" /\ r.status # Missing)

InitRes ==
    /\ results_file \in ResultsFiles
    /\ passing = {}
    /\ failing = {}
    /\ resPos = 0
    /\ resPc = "open"
    /\ LinkIdle /\ StatIdle /\ FileIdle /\ FoldIdle /\ ReqIdle /\ ExtIdle /\ MainIdle

\* lines 197-199: the file is missing
ResMissing ==
    /\ resPc = "open"
    /\ ~results_file.exists
    /\ resPc' = "done"
    /\ UNCHANGED << results_file, passing, failing, resPos, linkVars, statVars, fileVars, foldVars, reqVars, extVars, mainVars >>

\* lines 202-204: ET.parse succeeds
ResXmlParsed ==
    /\ resPc = "open"
    /\ results_file.exists
    /\ results_file.format = "xml"
    /\ resPc' = "xml"
    /\ UNCHANGED << results_file, passing, failing, resPos, linkVars, statVars, fileVars, foldVars, reqVars, extVars, mainVars >>

\* one iteration of `for test in root.findall('.//Test')`
ResXmlTest ==
    /\ resPc = "xml"
    /\ resPos < Len(results_file.records)
    /\ LET sets == XmlRecord(Sets(passing, failing), results_file.records[resPos + 1])
       IN  passing' = sets.passing /\ failing' = sets.failing
    /\ resPos' = resPos + 1
    /\ UNCHANGED << results_file, resPc, linkVars, statVars, fileVars, foldVars, reqVars, extVars, mainVars >>

\* lines 219-220: return after the XML loop
ResXmlReturn ==
    /\ resPc = "xml"
    /\ resPos = Len(results_file.records)
    /\ resPc' = "done"
    /\ UNCHANGED << results_file, passing, failing, resPos, linkVars, statVars, fileVars, foldVars, reqVars, extVars, mainVars >>

\* lines 222-234: ParseError, the content is read as text
ResNotXml ==
    /\ resPc = "open"
    /\ results_file.exists
    /\ results_file.format = "text"
    /\ resPc' = "legacy"
    /\ UNCHANGED << results_file, passing, failing, resPos, linkVars, statVars, fileVars, foldVars, reqVars, extVars, mainVars >>

\* one iteration of `for match in legacy_pattern.finditer(content)`
ResLegacyMatch ==
    /\ resPc = "legacy"
    /\ resPos < Len(LegacyMatches(results_file.records))
    /\ LET sets == TextRecord(Sets(passing, failing),
                              LegacyMatches(results_file.records)[resPos + 1])
       IN  passing' = sets.passing /\ failing' = sets.failing
    /\ resPos' = resPos + 1
    /\ UNCHANGED << results_file, resPc, linkVars, statVars, fileVars, foldVars, reqVars, extVars, mainVars >>

\* line 245: `if not passing and not failing` holds, format B is tried
ResTryBlocks ==
    /\ resPc = "legacy"
    /\ resPos = Len(LegacyMatches(results_file.records))
    /\ passing = {} /\ failing = {}
    /\ resPc' = "block"
    /\ resPos' = 0
    /\ UNCHANGED << results_file, passing, failing, linkVars, statVars, fileVars, foldVars, reqVars, extVars, mainVars >>

\* one iteration of `for m in block_pattern.finditer(content)`
ResBlockMatch ==
    /\ resPc = "block"
    /\ resPos < Len(BlockMatches(results_file.records))
    /\ LET sets == TextRecord(Sets(passing, failing),
                              BlockMatches(results_file.records)[resPos + 1])
       IN  passing' = sets.passing /\ failing' = sets.failing
    /\ resPos' = resPos + 1
    /\ UNCHANGED << results_file, resPc, linkVars, statVars, fileVars, foldVars, reqVars, extVars, mainVars >>

\* lines 255-256: return after the text formats
ResTextReturn ==
    /\ \/ /\ resPc = "legacy"
          /\ resPos = Len(LegacyMatches(results_file.records))
          /\ ~(passing = {} /\ failing = {})
       \/ /\ resPc = "block"
          /\ resPos = Len(BlockMatches(results_file.records))
    /\ resPc' = "done"
    /\ UNCHANGED << results_file, passing, failing, resPos, linkVars, statVars, fileVars, foldVars, reqVars, extVars, mainVars >>

NextRes ==
    \/ ResMissing \/ ResXmlParsed \/ ResXmlTest \/ ResXmlReturn \/ ResNotXml
    \/ ResLegacyMatch \/ ResTryBlocks \/ ResBlockMatch \/ ResTextReturn

(***************************************************************************)
(* generate-traceability-report.py: extract_test_metadata, on one file     *)
(***************************************************************************)
S_test_bmca == << "t","e","s","t","_","b","m","c","a" >>
S_test_     == << "t","e","s","t","_" >>

\* satisfies_pattern.search(line) is None
NoSatisfies == "(none)"
\* no pattern of test_patterns matches the line
NoDecl == << >>

\* The groups of the first matching pattern: two for TEST_CASE("..", "[..]")
\* and TEST(.., ..), one for `void test_xxx(`.
DeclGroups == { << S_Suite, S_sync >>, << S_test_bmca >> }

\* A line is kept as what the two searches see of it: the identifier after
\* the first `// @satisfies` marker, and the groups of the declaration.
SourceLines ==
    { [ satisfies |-> a, decl |-> d ] :
        a \in ReqIds \cup { NoSatisfies }, d \in DeclGroups \cup { NoDecl } }

\* the files: relative_path, test_file.stem and content.split('\n')
TestFiles ==
    { [ path |-> f.path, stem |-> f.stem, lines |-> q ] :
        f \in { [ path |-> "tests/test_bmca.cpp", stem |-> S_test_bmca ],
                [ path |-> "tests/sync.cpp", stem |-> S_sync ] },
        q \in SeqsUpTo(SourceLines, MaxSrcLines) }

\* test_to_requirements[test_id] = ids
Assign(map, test_id, ids) ==
    [ k \in DOMAIN map \cup { test_id } |-> IF k = test_id THEN ids ELSE map[k] ]

\* lines 151-154: the pending list after the annotation search of a line
AfterSatisfies(pending, line) ==
    IF line.satisfies # NoSatisfies THEN Append(pending, line.satisfies) ELSE pending

\* faulty variant: the pending list survives the declaration
PendingAfterDecl_not_cleared(pending) ==
    pending

\* line 166: current_satisfies = []
PendingAfterDecl(pending) ==
    << >>

\* faulty variant: the stem is used as it is
pseudo_name_whole_stem(stem) ==
    stem

\* lines 172-177: the stem without a leading 'test_'
pseudo_name(stem) ==
    IF Len(stem) >= Len(S_test_) /\ SubSeq(stem, 1, Len(S_test_)) = S_test_
    THEN SubSeq(stem, Len(S_test_) + 1, Len(stem))
    ELSE stem

\* line 181: [m.group(1) for m in satisfies_pattern.finditer(content)]
RECURSIVE Rescan(_, _)
Rescan(lines, i) ==
    IF i > Len(lines) THEN << >>
    ELSE AfterSatisfies(<< >>, lines[i]) \o Rescan(lines, i + 1)

\* faulty variant: a declaration in the file does not switch the fallback off
FallbackApplies_despite_decl(any_satisfies, any_decl) ==
    any_satisfies

\* line 171: `if found_any_satisfies and not found_any_test_decl`
FallbackApplies(any_satisfies, any_decl) ==
    any_satisfies /\ ~any_decl

InitExt ==
    /\ test_file \in TestFiles
    /\ current_satisfies = << >>
    /\ found_any_test_decl = FALSE
    /\ found_any_satisfies = FALSE
    /\ extLine = 0
    /\ extPc = "lines"
    /\ LinkIdle /\ StatIdle /\ FileIdle /\ FoldIdle /\ ReqIdle /\ ResIdle /\ MainIdle

\* lines 150-168: one iteration of `for line in lines`
ExtLine ==
    /\ extPc = "lines"
    /\ extLine < Len(test_file.lines)
    /\ LET line == test_file.lines[extLine + 1]
           pending == AfterSatisfies(current_satisfies, line)
           test_id == [ path |-> test_file.path, segs |-> line.decl ]
       IN  /\ found_any_satisfies' = (found_any_satisfies \/ line.satisfies # NoSatisfies)
           /\ IF line.decl # NoDecl
              THEN /\ test_to_requirements' =
                        IF pending # << >>
                        THEN Assign(test_to_requirements, test_id, pending)
                        ELSE test_to_requirements
                   /\ current_satisfies' = PendingAfterDecl(pending)
                   /\ found_any_test_decl' = TRUE
              ELSE /\ current_satisfies' = pending
                   /\ UNCHANGED << test_to_requirements, found_any_test_decl >>
    /\ extLine' = extLine + 1
    /\ UNCHANGED << test_file, extPc, requirements, passing_tests, failing_tests, linkTodo, linkPc, statVars, fileVars, foldVars, reqVars, resVars, mainVars >>

\* lines 171-183: the file had annotations and no declaration
ExtFallback ==
    /\ extPc = "lines"
    /\ extLine = Len(test_file.lines)
    /\ FallbackApplies(found_any_satisfies, found_any_test_decl)
    /\ LET test_id == [ path |-> test_file.path, segs |-> << pseudo_name(test_file.stem) >> ]
           ids == IF current_satisfies = << >>
                  THEN Rescan(test_file.lines, 1)
                  ELSE current_satisfies
       IN  /\ current_satisfies' = ids
           /\ test_to_requirements' =
                IF ids # << >> THEN Assign(test_to_requirements, test_id, ids)
                ELSE test_to_requirements
    /\ extPc' = "done"
    /\ UNCHANGED << test_file, found_any_test_decl, found_any_satisfies, extLine, requirements, passing_tests, failing_tests, linkTodo, linkPc, statVars, fileVars, foldVars, reqVars, resVars, mainVars >>

\* line 171 is false: the file is left as the loop made it
ExtNoFallback ==
    /\ extPc = "lines"
    /\ extLine = Len(test_file.lines)
    /\ ~FallbackApplies(found_any_satisfies, found_any_test_decl)
    /\ extPc' = "done"
    /\ UNCHANGED << test_file, current_satisfies, found_any_test_decl, found_any_satisfies, extLine, linkVars, statVars, fileVars, foldVars, reqVars, resVars, mainVars >>

NextExt == ExtLine \/ ExtFallback \/ ExtNoFallback

(***************************************************************************)
(* generate-traceability-report.py: generate_report and main               *)
(***************************************************************************)
\* args.threshold and args.fail_under_threshold
Thresholds == { 0, 50, DefaultThreshold, 100 }

Args == [ threshold : Thresholds, fail_under_threshold : BOOLEAN ]

Priorities == { "P0", "P1", "P2" }

\* what parse_stakeholder_requirements returns to main: no requirement at all,
\* or a catalog of requirements of any priority
ParsedCatalogs ==
    { << >> } \cup
    UNION { { [ id \in S |-> NewRequirement(id, "title", p[id], << >>) ] :
                p \in [ S -> Priorities ] } :
            S \in (SUBSET ReqIds) \ { {} } }

\* what extract_test_metadata returns to main
ExtractedMaps ==
    UNION { [ T -> { << id >> : id \in ReqIds } ] : T \in SUBSET TestIds }

\* the names parse_ctest_results returns to main
ParsedNames == { S_x_select_a, S_suite_sync }

\* faulty variant: a catalog is read although the document is missing
CatalogsOf_missing_ignored(exists) ==
    ParsedCatalogs

\* lines 71-73: without the document the catalog is empty
CatalogsOf(exists) ==
    IF exists THEN ParsedCatalogs ELSE { << >> }

\* lines 197-199: without the results file both sets are empty
ResultSetsOf(exists) ==
    IF exists THEN SUBSET ParsedNames ELSE { {} }

\* not yet assigned
Unset == -1

\* lines 267-296 for the tests of `todo`, one after the other
RECURSIVE LinkEvery(_, _, _, _, _)
LinkEvery(reqs, map, todo, pass_names, fail_names) ==
    IF todo = {} THEN reqs
    ELSE LET test_id == CHOOSE t \in todo : TRUE
             res == Resolve(test_id, pass_names, fail_names)
         IN  LinkEvery(LinkAll(reqs, test_id, map[test_id], res, 1),
                       map, todo \ { test_id }, pass_names, fail_names)

\* faulty variant: every requirement enters the aggregate
p0_p1_requirements_unfiltered(reqs) ==
    DOMAIN reqs

\* lines 310-313: the keys of p0_p1_requirements
p0_p1_requirements(reqs) ==
    { req_id \in DOMAIN reqs : reqs[req_id].priority \in { "P0", "P1" } }

\* line 316
total_requirements(reqs) == Cardinality(p0_p1_requirements(reqs))

\* line 317
tested_requirements(reqs) ==
    Cardinality({ req_id \in p0_p1_requirements(reqs) : is_tested(reqs[req_id]) })

\* lines 319-322: coverage_pct as the fraction num/den
CoveragePct(reqs) ==
    IF total_requirements(reqs) > 0
    THEN [ num |-> tested_requirements(reqs) * 100, den |-> total_requirements(reqs) ]
    ELSE [ num |-> 0, den |-> 1 ]

\* coverage_pct >= threshold
MeetsThreshold(pct, threshold) == pct.num >= threshold * pct.den

\* line 438
ReportCode(pct, threshold) == IF MeetsThreshold(pct, threshold) THEN 0 ELSE 1

\* faulty variant: the verdict of generate_report is returned without the flag
MainCode_always_enforced(a, code) ==
    code

\* lines 521-524
MainCode(a, code) ==
    IF a.fail_under_threshold /\ code # 0 THEN code ELSE 0

\* faulty variant: main goes on without requirements
NoRequirements_ignored(reqs) ==
    FALSE

\* line 493: `if not requirements`
NoRequirements(reqs) ==
    DOMAIN reqs = {}

InitMain ==
    /\ args \in Args
    /\ file_exists \in [ requirements : BOOLEAN, test_results : BOOLEAN ]
    /\ calls = << >>
    /\ coverage_pct = [ num |-> 0, den |-> 1 ]
    /\ exit_code = Unset
    /\ output_file = "absent"
    /\ main_return = Unset
    /\ mainPc = "parse"
    /\ LinkIdle /\ StatIdle /\ FileIdle /\ FoldIdle /\ ReqIdle /\ ResIdle /\ ExtIdle

\* line 492
MainParse ==
    /\ mainPc = "parse"
    /\ requirements' \in CatalogsOf(file_exists.requirements)
    /\ calls' = Append(calls, "parse_stakeholder_requirements")
    /\ mainPc' = "parsed"
    /\ UNCHANGED << args, file_exists, coverage_pct, exit_code, output_file, main_return, test_to_requirements, passing_tests, failing_tests, linkTodo, linkPc, statVars, fileVars, foldVars, reqVars, resVars, extVars >>

\* lines 493-495
MainNoRequirements ==
    /\ mainPc = "parsed"
    /\ NoRequirements(requirements)
    /\ main_return' = NoRequirementsCode
    /\ mainPc' = "exit"
    /\ UNCHANGED << args, file_exists, calls, coverage_pct, exit_code, output_file, linkVars, statVars, fileVars, foldVars, reqVars, resVars, extVars >>

\* lines 499-501
MainExtract ==
    /\ mainPc = "parsed"
    /\ ~NoRequirements(requirements)
    /\ test_to_requirements' \in ExtractedMaps
    /\ calls' = Append(calls, "extract_test_metadata")
    /\ mainPc' = "extracted"
    /\ UNCHANGED << args, file_exists, coverage_pct, exit_code, output_file, main_return, requirements, passing_tests, failing_tests, linkTodo, linkPc, statVars, fileVars, foldVars, reqVars, resVars, extVars >>

\* line 504
MainResults ==
    /\ mainPc = "extracted"
    /\ passing_tests' \in ResultSetsOf(file_exists.test_results)
    /\ failing_tests' \in ResultSetsOf(file_exists.test_results)
    /\ calls' = Append(calls, "parse_ctest_results")
    /\ mainPc' = "parsed_results"
    /\ UNCHANGED << args, file_exists, coverage_pct, exit_code, output_file, main_return, requirements, test_to_requirements, linkTodo, linkPc, statVars, fileVars, foldVars, reqVars, resVars, extVars >>

\* lines 507-512
MainLink ==
    /\ mainPc = "parsed_results"
    /\ requirements' = LinkEvery(requirements, test_to_requirements,
                                 DOMAIN test_to_requirements, passing_tests, failing_tests)
    /\ calls' = Append(calls, "link_tests_to_requirements")
    /\ mainPc' = "linked"
    /\ UNCHANGED << args, file_exists, coverage_pct, exit_code, output_file, main_return, test_to_requirements, passing_tests, failing_tests, linkTodo, linkPc, statVars, fileVars, foldVars, reqVars, resVars, extVars >>

\* lines 515-519: generate_report (lines 310-322, 430-438)
MainReport ==
    /\ mainPc = "linked"
    /\ coverage_pct' = CoveragePct(requirements)
    /\ output_file' = "written"
    /\ exit_code' = ReportCode(CoveragePct(requirements), args.threshold)
    /\ calls' = Append(calls, "generate_report")
    /\ mainPc' = "reported"
    /\ UNCHANGED << args, file_exists, main_return, linkVars, statVars, fileVars, foldVars, reqVars, resVars, extVars >>

\* lines 521-524
MainReturn ==
    /\ mainPc = "reported"
    /\ main_return' = MainCode(args, exit_code)
    /\ mainPc' = "exit"
    /\ UNCHANGED << args, file_exists, calls, coverage_pct, exit_code, output_file, linkVars, statVars, fileVars, foldVars, reqVars, resVars, extVars >>

NextMain ==
    \/ MainParse \/ MainNoRequirements \/ MainExtract \/ MainResults
    \/ MainLink \/ MainReport \/ MainReturn

vars == << linkVars, statVars, fileVars, foldVars, reqVars, resVars, extVars, mainVars >>

SpecLink == InitLink /\ [][NextLink]_vars

SpecStatus == InitStatus /\ [][NextStatus]_vars

SpecFile == InitFile /\ [][NextFile]_vars

SpecFold == InitFold /\ [][NextFold]_vars

SpecReq == InitReq /\ [][NextReq]_vars

SpecRes == InitRes /\ [][NextRes]_vars

SpecExt == InitExt /\ [][NextExt]_vars

SpecMain == InitMain /\ [][NextMain]_vars

(***************************************************************************)
(* Claims                                                                  *)
(***************************************************************************)
Linked == linkPc = "done"

Elems(q) == { q[i] : i \in 1..Len(q) }

NoRepeat(q) == \A i, j \in 1..Len(q) : q[i] = q[j] => i = j

\* C1: after link_tests_to_requirements has run, no requirement has a test
\* in both passing_tests and failing_tests, also when the result sets overlap
\* or a result name matches the test on both sides.
C1_PassingFailingDisjoint ==
    Linked => \A id \in DOMAIN requirements :
                requirements[id].passing_tests \cap requirements[id].failing_tests = {}

\* C1 witness: linking is over, a linked test matched a name of the passing set
\* and a name of the failing set, and it sits in a requirement's passing_tests.
C1_Witness ==
    /\ Linked
    /\ \E test_id \in DOMAIN test_to_requirements :
         /\ AnyContains(ShortName(test_id), passing_tests)
         /\ AnyContains(ShortName(test_id), failing_tests)
         /\ \E id \in DOMAIN requirements : test_id \in requirements[id].passing_tests

\* C2: status is NO TESTS iff test_cases is empty, PASSING iff test_cases is
\* non-empty and failing_tests is empty, PARTIAL iff test_cases is non-empty and
\* both passing_tests and failing_tests are non-empty, FAILING in every other
\* case; one of the four values results for every combination.
C2_StatusCases ==
    statPc = "read" =>
        /\ statOut.status \in { NO_TESTS, PASSING, PARTIAL, FAILING }
        /\ (statOut.status = NO_TESTS) <=> (statReq.test_cases = << >>)
        /\ (statOut.status = PASSING) <=>
               (statReq.test_cases # << >> /\ statReq.failing_tests = {})
        /\ (statOut.status = PARTIAL) <=>
               (statReq.test_cases # << >> /\ statReq.passing_tests # {}
                  /\ statReq.failing_tests # {})
        /\ (statOut.status = FAILING) <=>
               (statReq.test_cases # << >> /\ statReq.passing_tests = {}
                  /\ statReq.failing_tests # {})

\* C2 witness: status was read from an object with tests, passing and failing
\* tests, and is PARTIAL.
C2_Witness ==
    /\ statPc = "read"
    /\ statReq.test_cases # << >>
    /\ statReq.passing_tests # {}
    /\ statReq.failing_tests # {}
    /\ statOut.status = PARTIAL

\* C3 as claimed: after linking, coverage(r) == 100 iff failing_tests(r) is empty
\* and test_cases(r) is non-empty.
C3_Original ==
    Linked => \A id \in DOMAIN requirements :
                CoverageIs(coverage(requirements[id]), 100) <=>
                    (requirements[id].failing_tests = {}
                       /\ requirements[id].test_cases # << >>)

\* C3 amended: after linking, coverage(r) == 100 iff test_cases(r) is non-empty,
\* every linked test is in passing_tests(r) (none failed, none unresolved) and no
\* test is listed twice in test_cases(r); so coverage(r) == 100 implies that
\* failing_tests(r) is empty and test_cases(r) is non-empty.
C3_Coverage100 ==
    Linked => \A id \in DOMAIN requirements :
                LET r == requirements[id]
                IN  /\ CoverageIs(coverage(r), 100) <=>
                         ( /\ r.test_cases # << >>
                           /\ Elems(r.test_cases) \subseteq r.passing_tests
                           /\ NoRepeat(r.test_cases) )
                    /\ CoverageIs(coverage(r), 100) =>
                         (r.failing_tests = {} /\ r.test_cases # << >>)

\* C3 witness: a requirement with a linked test that stayed unresolved, and
\* another (or the same catalog's) requirement at 100.
C3_Witness ==
    /\ Linked
    /\ \E id \in DOMAIN requirements :
         /\ requirements[id].test_cases # << >>
         /\ requirements[id].failing_tests = {}
         /\ ~CoverageIs(coverage(requirements[id]), 100)
    /\ \E id \in DOMAIN requirements : CoverageIs(coverage(requirements[id]), 100)

\* C4 as claimed: after linking, coverage(r) == 0 iff test_cases(r) is empty.
C4_Original ==
    Linked => \A id \in DOMAIN requirements :
                CoverageIs(coverage(requirements[id]), 0) <=>
                    (requirements[id].test_cases = << >>)

\* C4 amended: after linking, coverage(r) == 0 iff passing_tests(r) is empty;
\* an empty test_cases(r) implies coverage(r) == 0, and not the other way round.
C4_Coverage0 ==
    Linked => \A id \in DOMAIN requirements :
                LET r == requirements[id]
                IN  /\ CoverageIs(coverage(r), 0) <=> (r.passing_tests = {})
                    /\ (r.test_cases = << >>) => CoverageIs(coverage(r), 0)

\* C4 witness: a requirement all of whose linked tests failed, at coverage 0,
\* beside a requirement with a passing test and coverage above 0.
C4_Witness ==
    /\ Linked
    /\ \E id \in DOMAIN requirements :
         /\ requirements[id].test_cases # << >>
         /\ Elems(requirements[id].test_cases) \subseteq requirements[id].failing_tests
         /\ CoverageIs(coverage(requirements[id]), 0)
    /\ \E id \in DOMAIN requirements :
         /\ requirements[id].passing_tests # {}
         /\ ~CoverageIs(coverage(requirements[id]), 0)

\* occurrences of an id in all_items, by kind
Occurrences(id, kind) ==
    { i \in 1..Len(all_items) : all_items[i].id = id /\ all_items[i].sourceType = kind }

Definitions(id) == Occurrences(id, "definition")

Folded == foldPc = "done"

\* entries of the written catalog for an id
Kept(id) == { i \in 1..Len(foldOut.items) : foldOut.items[i].id = id }

Min(S) == CHOOSE x \in S : \A y \in S : x <= y

\* C5 as claimed: an identifier with N >= 1 definition occurrences has exactly
\* one entry in the output, and the conflict count reported for it is N-1 (no
\* conflict entry when N = 1).
C5_Original ==
    Folded => \A id \in SpecIds :
                LET N == Cardinality(Definitions(id))
                IN  N >= 1 =>
                      /\ Cardinality(Kept(id)) = 1
                      /\ (N = 1) => id \notin DOMAIN foldOut.extraDefinitions
                      /\ (N > 1) => /\ id \in DOMAIN foldOut.extraDefinitions
                                    /\ foldOut.extraDefinitions[id] = N - 1

\* C6 as claimed: for an identifier with at least one definition occurrence,
\* the entry kept is the first definition occurrence in traversal order, also
\* when a reference occurrence of it comes first.
C6_Original ==
    Folded => \A id \in SpecIds :
                Definitions(id) # {} =>
                    \A k \in Kept(id) :
                        /\ foldOut.items[k] = all_items[Min(Definitions(id))]
                        /\ foldOut.items[k].sourceType = "definition"

\* C7 as claimed: an identifier is listed in duplicateDefinitionIds iff more
\* than one definition occurrence of it exists, whatever the order of
\* definitions and references.
C7_Original ==
    Folded => \A id \in SpecIds :
                (id \in foldOut.duplicateDefinitionIds) <=>
                    (Cardinality(Definitions(id)) > 1)

HeadersOf(id) ==
    { i \in 1..Len(matches(req_file.content)) :
        req_file.content[matches(req_file.content)[i]].id = id }

\* C9 as claimed: when an identifier is defined by more than one heading,
\* parse_stakeholder_requirements does not overwrite the earlier definition:
\* the catalog record carries the title, priority and acceptance criteria of
\* the first heading.
C9_Original ==
    reqPc = "done" =>
        \A id \in ReqIds :
            Cardinality(HeadersOf(id)) > 1 =>
                /\ id \in DOMAIN reqParsed
                /\ reqParsed[id] = RequirementOf(req_file.content, Min(HeadersOf(id)))

\* C10: if the front-matter id equals an identifier that also appears as a
\* heading, or on any other line, of the same document, parse_file returns
\* exactly one item for it, of sourceType 'definition'.
C10_FrontMatterIdOnce ==
    (filePc = "done"
       /\ fileDoc.primary_id # NoId
       /\ \E n \in 1..Len(fileDoc.lines) :
            \E k \in 1..Len(fileDoc.lines[n].ids) :
                fileDoc.lines[n].ids[k] = fileDoc.primary_id)
    => /\ Cardinality({ i \in 1..Len(items) : items[i].id = fileDoc.primary_id }) = 1
       /\ \A i \in 1..Len(items) :
            items[i].id = fileDoc.primary_id => items[i].sourceType = "definition"

\* C10 witness: parse_file returned for a file whose front-matter id is also
\* the identifier of one of its headings, with another identifier on the line.
C10_Witness ==
    /\ filePc = "done"
    /\ fileDoc.primary_id # NoId
    /\ \E n \in 1..Len(fileDoc.lines) :
         /\ heading_match(fileDoc.lines[n]) = fileDoc.primary_id
         /\ Len(fileDoc.lines[n].ids) = 2
         /\ fileDoc.lines[n].ids[2] # fileDoc.primary_id
    /\ Len(items) = 2

\* C11: of the identifiers parse_file records from a line, one is classified
\* 'definition' only if the line is a markdown heading and the identifier is the
\* first identifier on it; every other identifier recorded from the line is a
\* 'reference', and identifiers of non-heading lines are always 'reference'.
C11_DefinitionOnlyFirstOfHeading ==
    [][ (filePc = "lines" /\ lineNo' = lineNo + 1) =>
          LET line == fileDoc.lines[lineNo + 1]
          IN  /\ Len(items') >= Len(items)
              /\ SubSeq(items', 1, Len(items)) = items
              /\ \A n \in (Len(items) + 1)..Len(items') :
                   /\ items'[n].sourceType \in { "definition", "reference" }
                   /\ items'[n].sourceType = "definition" =>
                        (line.lead = "heading" /\ items'[n].id = line.ids[1])
                   /\ (line.lead # "heading" \/ items'[n].id # line.ids[1]) =>
                        items'[n].sourceType = "reference" ]_vars

\* C11 witness: parse_file returned after recording, from lines alone, a
\* definition (the first identifier of a heading) and a reference.
C11_Witness ==
    /\ filePc = "done"
    /\ fileDoc.primary_id = NoId
    /\ \E n \in 1..Len(fileDoc.lines) :
         /\ fileDoc.lines[n].lead = "heading"
         /\ Len(fileDoc.lines[n].ids) = 2
         /\ \E i, j \in 1..Len(items) :
              /\ items[i].id = fileDoc.lines[n].ids[1]
              /\ items[i].sourceType = "definition"
              /\ items[j].id = fileDoc.lines[n].ids[2]
              /\ items[j].sourceType = "reference"
    /\ \E n \in 1..Len(fileDoc.lines) : fileDoc.lines[n].lead = "bare"

\* the records parse_ctest_results reads its result from
UsedRecords ==
    IF ~results_file.exists THEN << >>
    ELSE IF results_file.format = "xml"
    THEN SelectSeq(results_file.records,
                   LAMBDA t : t.name # NoName /\ t.status # Missing)
    ELSE IF LegacyMatches(results_file.records) # << >>
    THEN LegacyMatches(results_file.records)
    ELSE BlockMatches(results_file.records)

IsPass(rec) == rec.status \in { "passed", "Passed" }

LastOf(name) ==
    LET S == { i \in 1..Len(UsedRecords) : UsedRecords[i].name = name }
    IN  UsedRecords[CHOOSE i \in S : \A j \in S : j <= i]

\* C12 as claimed: after parse_ctest_results every test name is in exactly one
\* of the returned sets, and a name that occurs more than once with different
\* outcomes is placed by its last occurrence.
C12_Original ==
    resPc = "done" =>
        \A name \in LogNames :
            (\E i \in 1..Len(UsedRecords) : UsedRecords[i].name = name) =>
                /\ (name \in passing) # (name \in failing)
                /\ (name \in passing) <=> IsPass(LastOf(name))


\* the annotation identifiers of a run of lines, in order of appearance
AnnotationsOf(lines) ==
    LET marked == SelectSeq(lines, LAMBDA l : l.satisfies # NoSatisfies)
    IN  [ i \in 1..Len(marked) |-> marked[i].satisfies ]

\* the last declaration line before line n of the file (0 when there is none)
LastDeclBefore(n) ==
    LET D == { m \in 1..(n - 1) : test_file.lines[m].decl # NoDecl }
    IN  IF D = {} THEN 0 ELSE CHOOSE m \in D : \A k \in D : k <= m

\* the annotations whose nearest following declaration is line n: those after
\* the previous declaration line, up to and including line n
AnnotationsFor(n) ==
    AnnotationsOf(SubSeq(test_file.lines, LastDeclBefore(n) + 1, n))

PseudoId ==
    IF test_file.path = "tests/test_bmca.cpp"
    THEN [ path |-> "tests/test_bmca.cpp", segs |-> << << "b","m","c","a" >> >> ]
    ELSE [ path |-> "tests/sync.cpp", segs |-> << << "s","y","n","c" >> >> ]

HasDecl == \E n \in 1..Len(test_file.lines) : test_file.lines[n].decl # NoDecl

HasSatisfies ==
    \E n \in 1..Len(test_file.lines) : test_file.lines[n].satisfies # NoSatisfies

\* C14: after extract_test_metadata on a file with at least one annotation and
\* no declaration line, the file has exactly one association, from
\* '<path>::<stem without a leading test_>' to all annotation identifiers of
\* the file in order of appearance; a file with a declaration line never gets
\* the pseudo identifier.
C14_FileStemFallback ==
    extPc = "done" =>
        /\ (HasSatisfies /\ ~HasDecl) =>
              /\ DOMAIN test_to_requirements = { PseudoId }
              /\ test_to_requirements[PseudoId] = AnnotationsOf(test_file.lines)
        /\ HasDecl => PseudoId \notin DOMAIN test_to_requirements

\* C14 witness: the scan of test_bmca.cpp is over, the file had two different
\* annotations and no declaration, and both are under the pseudo identifier.
C14_Witness ==
    /\ extPc = "done"
    /\ test_file.path = "tests/test_bmca.cpp"
    /\ ~HasDecl
    /\ Len(AnnotationsOf(test_file.lines)) = 2
    /\ AnnotationsOf(test_file.lines)[1] # AnnotationsOf(test_file.lines)[2]
    /\ PseudoId \in DOMAIN test_to_requirements
    /\ test_to_requirements[PseudoId] = AnnotationsOf(test_file.lines)


\* a name of either result set contains the short test name
DirectMatch(test_id) ==
    \/ AnyContains(ShortName(test_id), passing_tests)
    \/ AnyContains(ShortName(test_id), failing_tests)

\* the discriminating keys of a test: the tokens of its short name that are
\* longer than 3 characters and as long as any other token
LongestTokens(test_id) ==
    LET toks == re_split(ShortName(test_id))
    IN  { toks[i] : i \in { i \in 1..Len(toks) :
                              /\ Len(toks[i]) > 3
                              /\ \A j \in 1..Len(toks) : Len(toks[j]) <= Len(toks[i]) } }

\* exactly one name of `side` contains the key and no name of `other` does
OnlyCandidate(test_id, side, other) ==
    \E key \in LongestTokens(test_id) :
        /\ Cardinality({ t \in side : IsSubstring(key, t) }) = 1
        /\ { t \in other : IsSubstring(key, t) } = {}

\* the requirement is in the catalog and in the annotation list of the test
Lists(test_id, id) ==
    id \in DOMAIN requirements /\ id \in Elems(test_to_requirements[test_id])

\* C15: after linking, a test whose short name is contained in no result name
\* is in passing_tests of its requirements iff exactly one passing name and no
\* failing name contains its key, in failing_tests of its requirements iff
\* exactly one failing name and no passing name contains the key, and in every
\* other case in neither set of any requirement.
C15_HeuristicResolution ==
    Linked =>
        \A test_id \in DOMAIN test_to_requirements :
            ~DirectMatch(test_id) =>
                \A id \in DOMAIN requirements :
                    /\ test_id \in requirements[id].passing_tests
                         <=> (Lists(test_id, id)
                              /\ OnlyCandidate(test_id, passing_tests, failing_tests))
                    /\ test_id \in requirements[id].failing_tests
                         <=> (Lists(test_id, id)
                              /\ OnlyCandidate(test_id, failing_tests, passing_tests))

\* C15 witness: linking is over and a test without a direct match was resolved
\* through its key: one failing name contains 'select', no passing name does,
\* and the test is in failing_tests of a requirement.
C15_Witness ==
    /\ Linked
    /\ \E test_id \in DOMAIN test_to_requirements :
         /\ ~DirectMatch(test_id)
         /\ ShortName(test_id) = S_bmca_select
         /\ failing_tests = { S_x_select_b, S_suite_sync }
         /\ passing_tests = {}
         /\ \E id \in DOMAIN requirements : test_id \in requirements[id].failing_tests


\* neither the short name nor the key of the test settles an outcome
Unresolved(test_id) ==
    /\ ~DirectMatch(test_id)
    /\ ~OnlyCandidate(test_id, passing_tests, failing_tests)
    /\ ~OnlyCandidate(test_id, failing_tests, passing_tests)

\* C16: after linking, a test that stayed unresolved is in test_cases of every
\* requirement of the catalog that its annotation list names, and in
\* passing_tests and failing_tests of no requirement.
C16_UnresolvedStillCounted ==
    Linked =>
        \A test_id \in DOMAIN test_to_requirements :
            Unresolved(test_id) =>
                \A id \in DOMAIN requirements :
                    /\ Lists(test_id, id) => test_id \in Elems(requirements[id].test_cases)
                    /\ test_id \notin requirements[id].passing_tests
                    /\ test_id \notin requirements[id].failing_tests

\* C16 witness: linking is over, two passing names contain 'select', so the
\* test bmca_select stayed unresolved, and it is in test_cases of a requirement.
C16_Witness ==
    /\ Linked
    /\ { S_x_select_a, S_x_select_b } \subseteq passing_tests
    /\ \E test_id \in DOMAIN test_to_requirements :
         /\ ShortName(test_id) = S_bmca_select
         /\ Unresolved(test_id)
         /\ \E id \in DOMAIN requirements :
              /\ test_id \in Elems(requirements[id].test_cases)
              /\ requirements[id].passing_tests = {}
              /\ requirements[id].failing_tests = {}


\* C17 as claimed: after linking, no test identifier occurs twice in test_cases
\* of a requirement, also when the annotation list of a test names the same
\* requirement more than once, so that len(test_cases) is the number of
\* distinct tests linked to the requirement.
C17_Original ==
    Linked =>
        \A id \in DOMAIN requirements :
            /\ NoRepeat(requirements[id].test_cases)
            /\ Len(requirements[id].test_cases)
                 = Cardinality(Elems(requirements[id].test_cases))


\* the requirement counts in the aggregate: it is in the catalog with priority
\* P0 or P1
InAggregate(id) ==
    id \in DOMAIN requirements /\ requirements[id].priority \in { "P0", "P1" }

\* denominator and numerator of the aggregate, one requirement at a time
Denominator == Cardinality({ id \in ReqIds : InAggregate(id) })

Numerator ==
    Cardinality({ id \in ReqIds :
                    InAggregate(id) /\ requirements[id].passing_tests # {} })

Reported == mainPc \in { "reported", "exit" } /\ output_file = "written"

\* C18: the aggregate generate_report computes is Numerator / Denominator * 100
\* over the requirements of priority P0 or P1, tested meaning at least one
\* passing test, and 0 when there is no such requirement; a requirement of
\* another priority is in neither count, and a P0/P1 requirement without linked
\* tests is in the denominator only.
C18_AggregateCoverage ==
    Reported =>
        /\ IF Denominator = 0
           THEN CoverageIs(coverage_pct, 0)
           ELSE coverage_pct.num * Denominator = 100 * Numerator * coverage_pct.den
        /\ \A id \in DOMAIN requirements :
             /\ requirements[id].priority = "P2" =>
                  coverage_pct = CoveragePct([ k \in DOMAIN requirements \ { id }
                                                 |-> requirements[k] ])
             /\ (InAggregate(id) /\ requirements[id].test_cases = << >>) =>
                  /\ Denominator >= 1
                  /\ Numerator <= Denominator - 1

\* C18 witness: the report is written for a P2 requirement with a passing test
\* beside a P0 requirement without linked tests, and the aggregate is 0 of 1.
C18_Witness ==
    /\ Reported
    /\ DOMAIN requirements = ReqIds
    /\ requirements["STR-STD-001"].priority = "P2"
    /\ requirements["STR-STD-001"].passing_tests # {}
    /\ requirements["STR-PERF-002"].priority = "P0"
    /\ requirements["STR-PERF-002"].test_cases = << >>
    /\ coverage_pct = [ num |-> 0, den |-> 1 ]

\* aggregate coverage >= threshold, from the counts
CoverageMet ==
    IF Denominator = 0 THEN 0 >= args.threshold
    ELSE 100 * Numerator >= args.threshold * Denominator

Exited == mainPc = "exit"

\* C19 as claimed: every run of main with at least one parsed requirement
\* returns 0 iff coverage >= threshold and non-zero iff coverage < threshold.
C19_Original ==
    (Exited /\ DOMAIN requirements # {}) =>
        /\ main_return = 0 <=> CoverageMet
        /\ main_return # 0 <=> ~CoverageMet

\* C19: a run of main with at least one parsed requirement and
\* --fail-under-threshold returns 0 iff coverage >= threshold and 1 iff
\* coverage < threshold; without --fail-under-threshold it returns 0 whatever
\* the coverage is.
C19_ExitStatusWithFlag ==
    (Exited /\ DOMAIN requirements # {}) =>
        IF args.fail_under_threshold
        THEN /\ main_return = 0 <=> CoverageMet
             /\ main_return = 1 <=> ~CoverageMet
        ELSE main_return = 0

\* C19 witness: main has returned 1 for a run with --fail-under-threshold, the
\* default threshold and a P1 requirement without passing test.
C19_Witness ==
    /\ Exited
    /\ args.fail_under_threshold
    /\ args.threshold = DefaultThreshold
    /\ \E id \in DOMAIN requirements :
         requirements[id].priority = "P1" /\ requirements[id].passing_tests = {}
    /\ ~CoverageMet
    /\ main_return = 1

\* C20: when parse_stakeholder_requirements returns no requirement, main calls
\* nothing else, writes no report and returns 2; a run with requirements
\* returns 0 or 1.
C20_NoRequirementsStops ==
    /\ (mainPc # "parse" /\ DOMAIN requirements = {}) =>
          /\ mainPc \in { "parsed", "exit" }
          /\ calls = << "parse_stakeholder_requirements" >>
          /\ output_file = "absent"
          /\ exit_code = Unset
          /\ Exited => main_return = 2
    /\ (Exited /\ DOMAIN requirements # {}) => main_return \in { 0, 1 }

\* C20 witness: main has returned 2 after the parse call alone.
C20_Witness ==
    /\ Exited
    /\ DOMAIN requirements = {}
    /\ calls = << "parse_stakeholder_requirements" >>
    /\ main_return = 2


\* C21 as claimed: a run of main with a missing requirements document or a
\* missing results file gets an empty parse result, is not fatal, and ends
\* with a written report of zero coverage.
C21_Original ==
    (Exited /\ (~file_exists.requirements \/ ~file_exists.test_results)) =>
        /\ ~file_exists.requirements => DOMAIN requirements = {}
        /\ main_return # NoRequirementsCode
        /\ output_file = "written"
        /\ CoverageIs(coverage_pct, 0)

\* C21: a missing results file is not fatal: with at least one requirement
\* parsed, both result sets are empty, the run reaches generate_report, the
\* report is written with zero coverage and main returns 0 or 1.  A missing
\* requirements document gives an empty catalog, and main then returns 2
\* without calling anything else and without writing a report.
C21_MissingFiles ==
    /\ (mainPc # "parse" /\ ~file_exists.requirements) =>
          /\ DOMAIN requirements = {}
          /\ calls = << "parse_stakeholder_requirements" >>
          /\ output_file = "absent"
          /\ Exited => main_return = NoRequirementsCode
    /\ (Exited /\ DOMAIN requirements # {} /\ ~file_exists.test_results) =>
          /\ passing_tests = {} /\ failing_tests = {}
          /\ calls[Len(calls)] = "generate_report"
          /\ output_file = "written"
          /\ CoverageIs(coverage_pct, 0)
          /\ main_return \in { 0, 1 }

\* C21 witness: main has returned after a run without results file in which a
\* P0 requirement had a linked test; the report is written with coverage 0.
C21_Witness ==
    /\ Exited
    /\ file_exists.requirements
    /\ ~file_exists.test_results
    /\ \E id \in DOMAIN requirements :
         /\ requirements[id].priority = "P0"
         /\ requirements[id].test_cases # << >>
    /\ output_file = "written"
    /\ coverage_pct = [ num |-> 0, den |-> Denominator ]


\* C22: after linking, a test whose short name is contained in a passing name
\* and in a failing name is in passing_tests and not in failing_tests of every
\* catalog requirement its annotation list names, and each of them is tested.
C22_BothMatchCountsAsPassing ==
    Linked =>
        \A test_id \in DOMAIN test_to_requirements :
            ( /\ AnyContains(ShortName(test_id), passing_tests)
              /\ AnyContains(ShortName(test_id), failing_tests) ) =>
                \A id \in DOMAIN requirements :
                    /\ test_id \notin requirements[id].failing_tests
                    /\ Lists(test_id, id) =>
                         /\ test_id \in requirements[id].passing_tests
                         /\ is_tested(requirements[id])

\* C22 witness: linking is over, suite_sync is a passing and a failing name, and
\* the test Suite::sync is the only passing test of a requirement that has no
\* failing test.
C22_Witness ==
    /\ Linked
    /\ S_suite_sync \in passing_tests \cap failing_tests
    /\ \E test_id \in DOMAIN test_to_requirements :
         /\ ShortName(test_id) = S_sync
         /\ \E id \in DOMAIN requirements :
              /\ requirements[id].passing_tests = { test_id }
              /\ requirements[id].failing_tests = {}
              /\ is_tested(requirements[id])


\* C23: while and after link_tests_to_requirements runs on a freshly parsed
\* catalog, passing_tests and failing_tests of every requirement are within its
\* test_cases and its coverage is at most 100; no step adds or removes a
\* catalog entry, and a step changes only requirements that the annotation
\* list of the linked test names, so an identifier absent from the catalog
\* changes nothing.
C23_SetsWithinTestCases ==
    /\ [](\A id \in DOMAIN requirements :
            /\ (requirements[id].passing_tests \cup requirements[id].failing_tests)
                 \subseteq Elems(requirements[id].test_cases)
            /\ coverage(requirements[id]).num <= 100 * coverage(requirements[id]).den)
    /\ [][ linkPc = "linking" =>
             /\ DOMAIN requirements' = DOMAIN requirements
             /\ \A id \in DOMAIN requirements :
                  (\A t \in linkTodo \ linkTodo' :
                       id \notin Elems(test_to_requirements[t]))
                    => requirements'[id] = requirements[id] ]_vars

\* C23 witness: linking is over for a catalog without STR-PERF-002; a test whose
\* annotation list names STR-PERF-002 and STR-STD-001 is a passing test and a
\* test case of STR-STD-001, whose coverage is 100.
C23_Witness ==
    /\ Linked
    /\ DOMAIN requirements = { "STR-STD-001" }
    /\ \E test_id \in DOMAIN test_to_requirements :
         /\ test_to_requirements[test_id] = << "STR-PERF-002", "STR-STD-001" >>
         /\ requirements["STR-STD-001"].test_cases = << test_id >>
         /\ requirements["STR-STD-001"].passing_tests = { test_id }
    /\ CoverageIs(coverage(requirements["STR-STD-001"]), 100)


\* the test identifier a declaration line of the file gives
DeclId(n) == [ path |-> test_file.path, segs |-> test_file.lines[n].decl ]

\* the declaration lines of the file
DeclLines == { n \in 1..Len(test_file.lines) : test_file.lines[n].decl # NoDecl }

\* C24: in a file with a declaration line, every association of the result is
\* the one of a declaration line with the annotations met up to that line, so
\* annotations after the last declaration are under no test identifier, and
\* neither a line after the last declaration nor the end of the scan writes an
\* association; a declaration line reached with an empty pending list and
\* carrying no annotation leaves every association as it was.
C24_TrailingAnnotationsDropped ==
    /\ []((extPc = "done" /\ HasDecl) =>
            \A k \in DOMAIN test_to_requirements :
                \E n \in DeclLines :
                    /\ k = DeclId(n)
                    /\ AnnotationsFor(n) # << >>
                    /\ test_to_requirements[k] = AnnotationsFor(n))
    /\ [][ extPc = "lines" =>
             IF extLine' = extLine + 1
             THEN LET line == test_file.lines[extLine + 1]
                  IN  /\ (HasDecl /\ \A n \in DeclLines : n < extLine + 1) =>
                            test_to_requirements' = test_to_requirements
                      /\ ( /\ line.decl # NoDecl
                           /\ line.satisfies = NoSatisfies
                           /\ current_satisfies = << >> ) =>
                            test_to_requirements' = test_to_requirements
             ELSE HasDecl => test_to_requirements' = test_to_requirements ]_vars

\* C24 witness: the scan is over for a file whose first line declares a test
\* with an annotation, whose second line declares the same test again without
\* one, and whose third line is an annotation alone; the result is the
\* association of the first line only.
C24_Witness ==
    /\ extPc = "done"
    /\ Len(test_file.lines) = 3
    /\ LET l1 == test_file.lines[1]
           l2 == test_file.lines[2]
           l3 == test_file.lines[3]
       IN  /\ l1.decl # NoDecl /\ l1.satisfies # NoSatisfies
           /\ l2.decl = l1.decl /\ l2.satisfies = NoSatisfies
           /\ l3.decl = NoDecl /\ l3.satisfies # NoSatisfies
           /\ l3.satisfies # l1.satisfies
           /\ DOMAIN test_to_requirements = { DeclId(1) }
           /\ test_to_requirements[DeclId(1)] = << l1.satisfies >>

====
